---- MODULE Spec2Model ----
(***************************************************************************)
(* Model of the slump native streaming core (native/src).                  *)
(*                                                                         *)
(*   Spec       the stream orchestrator of lib.rs: the process-wide STREAM *)
(*              singleton, the host entry points start_stream/stop_stream  *)
(*              and the pacing-loop threads start_stream spawns.           *)
(*   AudioSpec  the audio ring buffer of audio/mod.rs driven by            *)
(*              capture_audio and read_audio.                              *)
(*   HostSpec   the host entry points alone: start_stream, stop_stream and *)
(*              handle_signal.                                             *)
(*   SignalSpec one WebRTCTransport of webrtc/mod.rs inside a runtime: its *)
(*              signaling channel, the dispatcher task and is_connected.   *)
(*   LivenessSpec  the same transport against the clock.                   *)
(*   FairSpec   Spec with the pacing threads scheduled fairly.             *)
(*   VideoSpec  one VideoCapture of video/mod.rs under capture_frame.      *)
(*   CodecSpec  the JSON encoding of SignalMessage and its decoding.       *)
(*                                                                         *)
(* Resources (VideoCapture, AudioCapture, WebRTCTransport) are identified  *)
(* by the number of the start_stream call that constructed them; 0 stands  *)
(* for Option::None.                                                       *)
(***************************************************************************)
EXTENDS Integers, Sequences, FiniteSets, TLC

\* ---------------------------------------------------------------- bounds
MaxStarts == 2        \* start_stream calls that get as far as opening devices
MaxFramesSent == 1    \* video frames counted in stats.video_frames_sent
MaxEvents == 2        \* Stats events delivered to the event sink
RbCapacity == 3       \* ring buffer capacity, standing for SAMPLE_RATE * 2
MaxSamples == 6       \* samples handed to rb.push over a run
MaxPacketFrames == 2  \* frames one audio packet decodes to
MaxFrameSamples == 2  \* samples in one decoded audio frame
MaxReads == 3         \* read_audio calls over a run
MaxSignals == 2       \* handle_signal calls recorded over a run
MaxMessages == 3      \* messages sent into the signaling channel over a run
MaxTime == 6          \* seconds of clock time a run covers
MaxCaptures == 4      \* capture_frame calls on one adapter
MaxStrLen == 2        \* length of a string field of a SignalMessage

\* ------------------------------------------------------------ input sets
\* fps argument of start_stream: 0 and a usual rate
FpsValues == {0, 30}
\* byte length of a decoded frame (frame.len()); multiples of 125 keep
\* len * 8 * fps / 1000 exact
FrameLens == {125, 250}
\* the step of start_stream whose `?` returns the error, or "none"
FailSteps == {"none", "video", "audio", "runtime", "transport", "tsfn"}

None == 0
\* Duration::from_secs(5) of is_connected
LivenessWindow == 5

VARIABLES
    STREAM_some,    \* STREAM.is_some(): STREAM_INIT.call_once has run
    running,        \* SlumpStream.running
    video_capture,  \* SlumpStream.video_capture (None or a VideoCapture)
    audio_capture,  \* SlumpStream.audio_capture
    transport,      \* SlumpStream.transport
    stats,          \* SlumpStream.stats (shared with the loop threads)
    loops,          \* the threads spawned by start_stream, in spawn order
    released,       \* resources that have been dropped, per kind
    gen,            \* number of start_stream calls that opened devices
    events,         \* number of Stats events handed to on_event_ts
    last_fps,       \* what the last Stats event's fps was computed from
    failed,         \* a capture or a send of some tick has failed
    decoded,        \* number of frames capture_frame has returned
    sent,           \* the frames handed to send_video_frame, in call order
    crashed,        \* the process died on a use of a dropped resource
    ret,            \* last host call and what it returned
    stopped,        \* history: loops whose stream stop_stream has stopped
    lateTick,       \* history: loops that began a tick after being stopped
    danglingUse,    \* history: a tick used a resource after its drop
    ring_buffer,    \* AudioCapture.ring_buffer, oldest sample first
    pushed,         \* history: samples handed to rb.push, in order
    accepted,       \* history: samples rb.push stored
    readOut,        \* history: samples returned by read_audio, in order
    nReads,         \* history: number of read_audio calls
    last,           \* history: the last audio call, its inputs and result
    dispatcher,     \* the task spawned by WebRTCTransport::new
    ws_queue,       \* messages in the ws_sender/ws_receiver channel
    ws_open,        \* ws_sender is alive (the transport has not been dropped)
    conn_calls,     \* calls the dispatcher made on the peer connection
    dispatched,     \* history: messages the dispatcher has received
    apply_result,   \* history: how the last received message was handled
    handed,         \* history: texts given to handle_signal while running
    now,            \* the clock, in seconds
    last_ping,      \* WebRTCTransport.last_ping
    last_signal,    \* history: when the peer's last liveness signal came
    codec,          \* a SignalMessage on its way through encode and decode
    \* video/mod.rs
    last_frame,     \* VideoCapture.last_frame
    last_pts,       \* VideoCapture.last_pts
    frame_count,    \* VideoCapture.frame_count
    received,       \* number of frames the decoder has put out
    returned,       \* history: the frame capture_frame returned last
    cap_last,       \* history: the last capture_frame call
    nCaptures       \* number of capture_frame calls made

streamVars == <<STREAM_some, running, video_capture, audio_capture, transport,
                stats, loops, released, gen, failed, events, last_fps, decoded, sent, crashed, ret,
                stopped, lateTick, danglingUse>>
audioVars == <<ring_buffer, pushed, accepted, readOut, nReads, last>>
signalVars == <<dispatcher, ws_queue, ws_open, conn_calls, dispatched,
                apply_result, handed, now, last_ping, last_signal>>
codecVars == <<codec>>
videoVars ==
    <<last_frame, last_pts, frame_count, received, returned, cap_last,
      nCaptures>>
vars == <<streamVars, audioVars, signalVars, codecVars, videoVars>>

Min(a, b) == IF a < b THEN a ELSE b

\* ------------------------------------------------------------- lib.rs
StreamStatsDefault ==
    [video_frames_sent |-> 0, audio_frames_sent |-> 0, video_bitrate |-> 0]

\* the frame count a Stats event divides by the elapsed time (`frames`),
\* next to the frames counted since the emitting loop's previous stats
\* tick (`since_tick`)
NoStatsEvent == [frames |-> 0, since_tick |-> 0]

\* SlumpStream::default() is what STREAM holds once initialised; before
\* that STREAM is None and the fields below are not yet observable.
StreamInit ==
    /\ STREAM_some = FALSE
    /\ running = FALSE
    /\ video_capture = None
    /\ audio_capture = None
    /\ transport = None
    /\ stats = StreamStatsDefault
    /\ loops = <<>>
    /\ released = [video |-> {}, audio |-> {}, transport |-> {}]
    /\ gen = 0
    /\ events = 0
    /\ last_fps = NoStatsEvent
    /\ decoded = 0
    /\ sent = <<>>
    /\ failed = FALSE
    /\ crashed = FALSE
    /\ ret = [op |-> "none", val |-> "none"]
    /\ stopped = {}
    /\ lateTick = {}
    /\ danglingUse = FALSE

\* Assigning Some(new) to an Option field drops the value it held.
Drop(set, old) == IF old = None THEN set ELSE set \cup {old}

\* sent_at_tick: stats.video_frames_sent when last_stats_time (lines 131,
\* 157) was last set
NewLoop(fps) ==
    [pc |-> "init", fps |-> fps, video |-> None, transport |-> None, frame |-> 0,
     seq |-> 0, sent_at_tick |-> stats.video_frames_sent]

\* start_stream, lines 77-79: the early return while running
StartAlreadyRunning ==
    /\ ret' = [op |-> "start_stream", val |-> "false"]
    /\ UNCHANGED <<running, video_capture, audio_capture, transport, stats,
                   loops, released, gen, failed, events, last_fps, decoded, sent, crashed, stopped, lateTick,
                   danglingUse>>
    /\ UNCHANGED signalVars

\* What start_stream leaves of the transport it builds, lines 100-116:
\* WebRTCTransport::new spawns the dispatcher task on the Runtime created
\* on line 100, and that Runtime is a temporary dropped at the end of the
\* statement, which cancels the task at its recv().await and drops the
\* receiving end with it.
StartTransport ==
    /\ dispatcher' = "cancelled"
    /\ ws_queue' = <<>>
    /\ ws_open' = TRUE
    /\ conn_calls' = <<>>
    /\ dispatched' = <<>>
    /\ apply_result' = "none"
    /\ last_ping' = now
    /\ last_signal' = <<>>
    /\ UNCHANGED <<handed, now>>

StartOpen_RunningSetFirst(fps, fail) ==
    LET g == gen + 1
        videoSet == fail # "video"
        audioSet == fail \notin {"video", "audio"}
        transportSet == fail \in {"none", "tsfn"}
    IN  /\ gen < MaxStarts
        /\ gen' = g
        /\ video_capture' = IF videoSet THEN g ELSE video_capture
        /\ audio_capture' = IF audioSet THEN g ELSE audio_capture
        /\ transport' = IF transportSet THEN g ELSE transport
        /\ released' =
             [video |-> IF videoSet THEN Drop(released.video, video_capture)
                        ELSE released.video,
              audio |-> IF audioSet THEN Drop(released.audio, audio_capture)
                        ELSE released.audio,
              transport |-> IF transportSet
                            THEN Drop(released.transport, transport)
                            ELSE released.transport]
        /\ running' = TRUE
        /\ loops' = IF fail = "none" THEN Append(loops, NewLoop(fps)) ELSE loops
        /\ ret' = [op |-> "start_stream",
                   val |-> IF fail = "none" THEN "true" ELSE "error"]
        /\ IF transportSet THEN StartTransport ELSE UNCHANGED signalVars
        /\ UNCHANGED <<stats, events, last_fps, decoded, sent, failed, crashed, stopped,
                       lateTick, danglingUse>>

\* start_stream, lines 81-180: open the devices and the transport in
\* sequence; `fail` is the first step whose `?` returns the error.  Every
\* assignment made before the failing step stays in place.
StartOpen(fps, fail) ==
    LET g == gen + 1
        videoSet == fail # "video"
        audioSet == fail \notin {"video", "audio"}
        transportSet == fail \in {"none", "tsfn"}
    IN  /\ gen < MaxStarts
        /\ gen' = g
        /\ video_capture' = IF videoSet THEN g ELSE video_capture
        /\ audio_capture' = IF audioSet THEN g ELSE audio_capture
        /\ transport' = IF transportSet THEN g ELSE transport
        /\ released' =
             [video |-> IF videoSet THEN Drop(released.video, video_capture)
                        ELSE released.video,
              audio |-> IF audioSet THEN Drop(released.audio, audio_capture)
                        ELSE released.audio,
              transport |-> IF transportSet
                            THEN Drop(released.transport, transport)
                            ELSE released.transport]
        /\ running' = transportSet
        /\ loops' = IF fail = "none" THEN Append(loops, NewLoop(fps)) ELSE loops
        /\ ret' = [op |-> "start_stream",
                   val |-> IF fail = "none" THEN "true" ELSE "error"]
        /\ IF transportSet THEN StartTransport ELSE UNCHANGED signalVars
        /\ UNCHANGED <<stats, events, last_fps, decoded, sent, failed, crashed, stopped,
                       lateTick, danglingUse>>

start_stream_NoRunningCheck(fps, fail) ==
    /\ ~crashed
    /\ STREAM_some' = TRUE
    /\ StartOpen(fps, fail)
    /\ UNCHANGED <<audioVars, codecVars, videoVars>>

start_stream(fps, fail) ==
    /\ ~crashed
    /\ STREAM_some' = TRUE
    /\ IF running THEN StartAlreadyRunning ELSE StartOpen(fps, fail)
    /\ UNCHANGED <<audioVars, codecVars, videoVars>>

\* stop_stream, lines 184-202
stop_stream ==
    /\ ~crashed
    /\ IF ~STREAM_some
       THEN /\ ret' = [op |-> "stop_stream", val |-> "error"]
            /\ UNCHANGED <<running, video_capture, audio_capture, transport,
                           released, stopped, ws_open>>
       ELSE IF ~running
       THEN /\ ret' = [op |-> "stop_stream", val |-> "false"]
            /\ UNCHANGED <<running, video_capture, audio_capture, transport,
                           released, stopped, ws_open>>
       ELSE /\ running' = FALSE
            /\ video_capture' = None
            /\ audio_capture' = None
            /\ transport' = None
            /\ released' = [video |-> Drop(released.video, video_capture),
                            audio |-> Drop(released.audio, audio_capture),
                            transport |-> Drop(released.transport, transport)]
            /\ stopped' = DOMAIN loops
            /\ ws_open' = FALSE
            /\ ret' = [op |-> "stop_stream", val |-> "true"]
    /\ UNCHANGED <<STREAM_some, stats, loops, gen, failed, events, last_fps, decoded, sent, crashed, lateTick,
                   danglingUse>>
    /\ UNCHANGED <<dispatcher, ws_queue, conn_calls, dispatched, apply_result,
                   handed, now, last_ping, last_signal>>
    /\ UNCHANGED <<audioVars, codecVars, videoVars>>

\* ------------------------------------------------- lib.rs, the loop thread
\* The thread body has no exit: both select! branches are `_ = interval.tick()`
\* and are never disabled, so `else => break` is never taken.  A thread ends
\* only by panicking while it sets up.
Alive(l) == loops[l].pc # "panicked"
SetLoop(l, rec) == loops' = [loops EXCEPT ![l] = rec]

\* lines 127-133: Runtime::new().unwrap() and the two intervals.
\* 1000 / fps panics for fps = 0, and tokio::time::interval panics on a zero
\* period, i.e. for fps > 1000.
LoopSetup(l, rt_ok) ==
    /\ ~crashed
    /\ loops[l].pc = "init"
    /\ LET fps == loops[l].fps
           ok == rt_ok /\ fps # 0 /\ (1000 \div fps) # 0
       IN  SetLoop(l, [loops[l] EXCEPT !.pc = IF ok THEN "select" ELSE "panicked"])
    /\ UNCHANGED <<STREAM_some, running, video_capture, audio_capture, transport,
                   stats, released, gen, failed, events, last_fps, decoded, sent, crashed, ret, stopped, lateTick,
                   danglingUse>>
    /\ UNCHANGED <<audioVars, signalVars, codecVars, videoVars>>

\* lines 137-142: the video branch of select! takes its two references out
\* of STREAM; with either missing the tick does nothing.
VideoTick(l) ==
    /\ ~crashed
    /\ loops[l].pc = "select"
    /\ IF video_capture # None /\ transport # None
       THEN SetLoop(l, [loops[l] EXCEPT !.pc = "capture",
                                         !.video = video_capture,
                                         !.transport = transport])
       ELSE UNCHANGED loops
    /\ lateTick' = IF l \in stopped THEN lateTick \cup {l} ELSE lateTick
    /\ UNCHANGED <<STREAM_some, running, video_capture, audio_capture, transport,
                   stats, released, gen, failed, events, last_fps, decoded, sent, crashed, ret, stopped,
                   danglingUse>>
    /\ UNCHANGED <<audioVars, signalVars, codecVars, videoVars>>

\* What a call through a reference does to the process: a reference whose
\* target was dropped is dangling, and its use is undefined behaviour; the
\* process either goes on as if the target were there or dies.
UseOf(kind, id, dies) ==
    /\ danglingUse' = (danglingUse \/ id \in released[kind])
    /\ crashed' = (id \in released[kind] /\ dies)

\* line 143: video.capture_frame(); res is "frame", "none" or "err".
\* `if let Ok(Some(frame))` has no else: an Err ends the tick like a None.
CaptureFrame(l, res, len, dies) ==
    /\ ~crashed
    /\ loops[l].pc = "capture"
    /\ res = "frame" => stats.video_frames_sent < MaxFramesSent
    /\ UseOf("video", loops[l].video, dies)
    /\ failed' = (failed \/ res = "err")
    \* seq: the frame is the (decoded + 1)-th one decoded
    /\ IF res = "frame"
       THEN /\ SetLoop(l, [loops[l] EXCEPT !.pc = "send", !.frame = len,
                                            !.seq = decoded + 1])
            /\ decoded' = decoded + 1
       ELSE /\ SetLoop(l, [loops[l] EXCEPT !.pc = "select", !.video = None,
                                            !.transport = None])
            /\ UNCHANGED decoded
    /\ UNCHANGED <<STREAM_some, running, video_capture, audio_capture, transport,
                   stats, released, gen, events, last_fps, sent, ret, stopped,
                   lateTick>>
    /\ UNCHANGED <<audioVars, signalVars, codecVars, videoVars>>

\* lines 144-146: transport.send_video_frame(&frame, 0).await, awaited in
\* the select! branch itself; an error goes to log::error! and the tick
\* goes on to the counters.
SendVideoFrame(l, send_ok, dies) ==
    /\ ~crashed
    /\ loops[l].pc = "send"
    /\ UseOf("transport", loops[l].transport, dies)
    /\ failed' = (failed \/ ~send_ok)
    /\ sent' = Append(sent, loops[l].seq)
    /\ SetLoop(l, [loops[l] EXCEPT !.pc = "stats"])
    /\ UNCHANGED <<STREAM_some, running, video_capture, audio_capture, transport,
                   stats, released, gen, events, last_fps, decoded, ret,
                   stopped, lateTick>>
    /\ UNCHANGED <<audioVars, signalVars, codecVars, videoVars>>

\* lines 147-149: the counters, under the stats lock
UpdateStats(l) ==
    /\ ~crashed
    /\ loops[l].pc = "stats"
    /\ stats' = [stats EXCEPT
                   !.video_frames_sent = stats.video_frames_sent + 1,
                   !.video_bitrate = (loops[l].frame * 8 * loops[l].fps) \div 1000]
    /\ SetLoop(l, [loops[l] EXCEPT !.pc = "select", !.video = None,
                                    !.transport = None, !.frame = 0,
                                    !.seq = 0])
    /\ UNCHANGED <<STREAM_some, running, video_capture, audio_capture, transport,
                   released, gen, failed, events, last_fps, decoded, sent, crashed, ret, stopped, lateTick,
                   danglingUse>>
    /\ UNCHANGED <<audioVars, signalVars, codecVars, videoVars>>

\* lines 153-173: the stats branch emits one Stats event
StatsTick(l) ==
    /\ ~crashed
    /\ loops[l].pc = "select"
    /\ events < MaxEvents
    /\ events' = events + 1
    \* line 163: fps = stats.video_frames_sent as f64 / elapsed
    /\ last_fps' = [frames |-> stats.video_frames_sent,
                    since_tick |-> stats.video_frames_sent - loops[l].sent_at_tick]
    /\ SetLoop(l, [loops[l] EXCEPT !.sent_at_tick = stats.video_frames_sent])
    /\ lateTick' = IF l \in stopped THEN lateTick \cup {l} ELSE lateTick
    /\ UNCHANGED <<STREAM_some, running, video_capture, audio_capture, transport,
                   stats, released, gen, failed, decoded, sent, crashed, ret,
                   stopped, danglingUse>>
    /\ UNCHANGED <<audioVars, signalVars, codecVars, videoVars>>

\* ------------------------------------------------------- audio/mod.rs
\* A sample is identified by its position in the stream of samples handed
\* to rb.push, so that order and loss can be told apart.

\* AudioCapture::new, line 94: HeapRb::<f32>::new(..), empty
AudioInit ==
    /\ ring_buffer = <<>>
    /\ pushed = <<>>
    /\ accepted = <<>>
    /\ readOut = <<>>
    /\ nReads = 0
    /\ last = [op |-> "none", before |-> <<>>, req |-> 0, ret |-> 0,
               samples |-> <<>>]

rb_push_overwrite(rb, s) ==
    IF Len(rb) < RbCapacity THEN Append(rb, s) ELSE Append(Tail(rb), s)

rb_push_grow(rb, s) == Append(rb, s)

\* Rb::push, line 141: Err(sample) when the buffer is full, and the
\* result is thrown away by `let _ =`
rb_push(rb, s) ==
    IF Len(rb) < RbCapacity THEN Append(rb, s) ELSE rb

rb_pop_newest(rb) ==
    IF rb = <<>> THEN [some |-> FALSE, elem |-> 0, rb |-> rb]
    ELSE [some |-> TRUE, elem |-> rb[Len(rb)], rb |-> SubSeq(rb, 1, Len(rb) - 1)]

\* Rb::pop, line 153: the oldest sample, or None
rb_pop(rb) ==
    IF rb = <<>> THEN [some |-> FALSE, elem |-> 0, rb |-> rb]
    ELSE [some |-> TRUE, elem |-> Head(rb), rb |-> Tail(rb)]

\* lines 140-142: for &sample in samples { let _ = rb.push(sample); }
RECURSIVE PushAll(_, _)
PushAll(rb, samples) ==
    IF samples = <<>> THEN rb
    ELSE PushAll(rb_push(rb, Head(samples)), Tail(samples))

\* history: the samples of a batch that found room when they were pushed
RECURSIVE Stored(_, _)
Stored(n, samples) ==
    IF samples = <<>> THEN <<>>
    ELSE IF n < RbCapacity THEN <<Head(samples)>> \o Stored(n + 1, Tail(samples))
    ELSE Stored(n, Tail(samples))

RECURSIVE SumSeq(_)
SumSeq(s) == IF s = <<>> THEN 0 ELSE Head(s) + SumSeq(Tail(s))

\* the sample counts of the frames one packet decodes to
AudioPackets ==
    UNION {[1..n -> 0..MaxFrameSamples] : n \in 0..MaxPacketFrames}
CaptureResults == {"none", "other", "send_err", "ok", "resample_err"}

\* capture_audio, lines 106-146.  res tells how the call goes: no packet,
\* a packet of another stream, send_packet failing, every frame pushed, or
\* the resampler failing on the last frame received (the frames before it
\* have been pushed by then).
capture_audio(res, frames) ==
    LET reached == IF res = "ok" THEN frames
                   ELSE IF res = "resample_err"
                   THEN SubSeq(frames, 1, Len(frames) - 1)
                   ELSE <<>>
        total == SumSeq(reached)
        samples == [i \in 1..total |-> Len(pushed) + i]
    IN  /\ res = "resample_err" => Len(frames) >= 1
        /\ res \in {"none", "other", "send_err"} => frames = <<>>
        /\ Len(pushed) + total <= MaxSamples
        /\ ring_buffer' = PushAll(ring_buffer, samples)
        /\ pushed' = pushed \o samples
        /\ accepted' = accepted \o Stored(Len(ring_buffer), samples)
        /\ last' = [op |-> "capture_audio", before |-> ring_buffer, req |-> 0,
                    ret |-> 0, samples |-> samples]
        /\ UNCHANGED <<readOut, nReads>>
        /\ UNCHANGED <<streamVars, signalVars, codecVars, videoVars>>

\* lines 152-158: pop `count` samples into buffer[0..count], returning
\* early with i if a pop finds nothing
RECURSIVE ReadLoop(_, _, _, _)
ReadLoop(rb, buffer, i, count) ==
    IF i >= count THEN [rb |-> rb, buffer |-> buffer, ret |-> count]
    ELSE LET p == rb_pop(rb)
         IN  IF p.some
             THEN ReadLoop(p.rb, [buffer EXCEPT ![i + 1] = p.elem], i + 1, count)
             ELSE [rb |-> rb, buffer |-> buffer, ret |-> i]

\* read_audio, lines 148-161, on a caller's buffer of n slots
read_audio(n) ==
    LET buffer == [i \in 1..n |-> 0]
        count == Min(n, Len(ring_buffer))
        r == ReadLoop(ring_buffer, buffer, 0, count)
        got == SubSeq(r.buffer, 1, r.ret)
    IN  /\ nReads < MaxReads
        /\ nReads' = nReads + 1
        /\ ring_buffer' = r.rb
        /\ readOut' = readOut \o got
        /\ last' = [op |-> "read_audio", before |-> ring_buffer, req |-> n,
                    ret |-> r.ret, samples |-> got]
        /\ UNCHANGED <<pushed, accepted>>
        /\ UNCHANGED <<streamVars, signalVars, codecVars, videoVars>>

\* ------------------------------------------- webrtc/mod.rs, SignalMessage
\* A string is a sequence of characters; a JSON text is one too.  The
\* characters of string fields are a letter and the two that serde_json
\* writes with an escape.  Option<T> is <<>> for None and <<x>> for Some(x).
Chars == {"a", "\"", "\\"}
Strings == UNION {[1..n -> Chars] : n \in 0..MaxStrLen}
OptStrings == {<<>>} \cup {<<str>> : str \in Strings}
U16Values == {0, 7, 10, 65535}
OptU16s == {<<>>} \cup {<<n>> : n \in U16Values}

\* struct IceCandidate, lines 48-53
IceCandidates ==
    [candidate : Strings, sdp_mid : OptStrings, sdp_m_line_index : OptU16s]

\* enum SignalMessage, lines 55-61
SignalMessages ==
    [tag : {"Offer", "Answer"}, sdp : Strings]
        \cup [tag : {"Ice"}, candidate : IceCandidates]
        \cup [tag : {"Error"}, text : Strings]

OfferHead ==
    <<"{", "\"", "O", "f", "f", "e", "r", "\"", ":", "{", "\"", "s", "d",
      "p", "\"", ":">>
AnswerHead ==
    <<"{", "\"", "A", "n", "s", "w", "e", "r", "\"", ":", "{", "\"", "s",
      "d", "p", "\"", ":">>
IceHead ==
    <<"{", "\"", "I", "c", "e", "\"", ":", "{", "\"", "c", "a", "n", "d",
      "i", "d", "a", "t", "e", "\"", ":", "{", "\"", "c", "a", "n", "d",
      "i", "d", "a", "t", "e", "\"", ":">>
SdpMidKey ==
    <<",", "\"", "s", "d", "p", "_", "m", "i", "d", "\"", ":">>
SdpMLineIndexKey ==
    <<",", "\"", "s", "d", "p", "_", "m", "_", "l", "i", "n", "e", "_",
      "i", "n", "d", "e", "x", "\"", ":">>
ErrorHead ==
    <<"{", "\"", "E", "r", "r", "o", "r", "\"", ":">>
NullLit ==
    <<"n", "u", "l", "l">>

\* serde_json string escaping, for the characters of Chars
EscapeChar_QuoteOnly(c) ==
    IF c = "\"" THEN <<"\\", "\"">> ELSE <<c>>

EscapeChar(c) ==
    IF c = "\"" THEN <<"\\", "\"">>
    ELSE IF c = "\\" THEN <<"\\", "\\">>
    ELSE <<c>>

RECURSIVE EscapeStr(_)
EscapeStr(str) ==
    IF str = <<>> THEN <<>> ELSE EscapeChar(Head(str)) \o EscapeStr(Tail(str))

JsonString(str) == <<"\"">> \o EscapeStr(str) \o <<"\"">>

DigitChars == <<"0", "1", "2", "3", "4", "5", "6", "7", "8", "9">>

RECURSIVE JsonNumber(_)
JsonNumber(n) ==
    IF n < 10 THEN <<DigitChars[n + 1]>>
    ELSE JsonNumber(n \div 10) \o <<DigitChars[(n % 10) + 1]>>

JsonOptString(o) == IF o = <<>> THEN NullLit ELSE JsonString(o[1])
JsonOptNumber(o) == IF o = <<>> THEN NullLit ELSE JsonNumber(o[1])

\* serde_json::to_string of a SignalMessage, as #[derive(Serialize)] on
\* lines 48 and 55 writes it: the variant name is the key of a one-entry
\* object, struct fields follow in declaration order
to_string(m) ==
    IF m.tag = "Offer" THEN OfferHead \o JsonString(m.sdp) \o <<"}", "}">>
    ELSE IF m.tag = "Answer" THEN AnswerHead \o JsonString(m.sdp) \o <<"}", "}">>
    ELSE IF m.tag = "Ice"
    THEN IceHead \o JsonString(m.candidate.candidate)
             \o SdpMidKey \o JsonOptString(m.candidate.sdp_mid)
             \o SdpMLineIndexKey \o JsonOptNumber(m.candidate.sdp_m_line_index)
             \o <<"}", "}", "}">>
    ELSE ErrorHead \o JsonString(m.text) \o <<"}">>

\* The parser below reads the compact form to_string writes (no white
\* space, fields in declaration order, the escapes of Chars); every text a
\* specification of this module feeds it is either in that form or is
\* rejected by serde_json as well.
ParseFail == [ok |-> FALSE, val |-> <<>>, pos |-> 0]
StartsWith(t, pos, lit) ==
    /\ pos + Len(lit) - 1 <= Len(t)
    /\ SubSeq(t, pos, pos + Len(lit) - 1) = lit

RECURSIVE ParseStrBody(_, _, _)
ParseStrBody(t, pos, acc) ==
    IF pos > Len(t) THEN ParseFail
    ELSE IF t[pos] = "\"" THEN [ok |-> TRUE, val |-> acc, pos |-> pos + 1]
    ELSE IF t[pos] = "\\"
    THEN IF pos + 1 <= Len(t) /\ t[pos + 1] \in {"\"", "\\"}
         THEN ParseStrBody(t, pos + 2, Append(acc, t[pos + 1]))
         ELSE ParseFail
    ELSE ParseStrBody(t, pos + 1, Append(acc, t[pos]))

ParseString(t, pos) ==
    IF pos <= Len(t) /\ t[pos] = "\"" THEN ParseStrBody(t, pos + 1, <<>>)
    ELSE ParseFail

IsDigit(c) == \E d \in 1..10 : DigitChars[d] = c
DigitValue(c) == (CHOOSE d \in 1..10 : DigitChars[d] = c) - 1

RECURSIVE ParseDigits(_, _, _)
ParseDigits(t, pos, acc) ==
    IF pos <= Len(t) /\ IsDigit(t[pos])
    THEN ParseDigits(t, pos + 1, acc * 10 + DigitValue(t[pos]))
    ELSE [ok |-> TRUE, val |-> acc, pos |-> pos]

\* a u16: at least one digit, no leading zero, at most 65535
ParseU16(t, pos) ==
    IF ~(pos <= Len(t) /\ IsDigit(t[pos])) THEN ParseFail
    ELSE IF t[pos] = "0" /\ pos + 1 <= Len(t) /\ IsDigit(t[pos + 1]) THEN ParseFail
    ELSE LET r == ParseDigits(t, pos, 0)
         IN  IF r.val <= 65535 THEN r ELSE ParseFail

ParseOptString(t, pos) ==
    IF StartsWith(t, pos, NullLit)
    THEN [ok |-> TRUE, val |-> <<>>, pos |-> pos + Len(NullLit)]
    ELSE LET r == ParseString(t, pos)
         IN  IF r.ok THEN [r EXCEPT !.val = <<r.val>>] ELSE ParseFail

ParseOptU16(t, pos) ==
    IF StartsWith(t, pos, NullLit)
    THEN [ok |-> TRUE, val |-> <<>>, pos |-> pos + Len(NullLit)]
    ELSE LET r == ParseU16(t, pos)
         IN  IF r.ok THEN [r EXCEPT !.val = <<r.val>>] ELSE ParseFail

\* the text ends with `closing` at pos
EndsAt(t, pos, closing) ==
    StartsWith(t, pos, closing) /\ pos + Len(closing) - 1 = Len(t)

DecodeErr == [ok |-> FALSE, msg |-> <<>>]
DecodeOk(m) == [ok |-> TRUE, msg |-> m]

ParseSdpVariant(t, head, tag) ==
    LET r == ParseString(t, Len(head) + 1)
    IN  IF r.ok /\ EndsAt(t, r.pos, <<"}", "}">>)
        THEN DecodeOk([tag |-> tag, sdp |-> r.val])
        ELSE DecodeErr

ParseIceVariant(t) ==
    LET c == ParseString(t, Len(IceHead) + 1)
    IN  IF ~(c.ok /\ StartsWith(t, c.pos, SdpMidKey)) THEN DecodeErr
        ELSE LET m == ParseOptString(t, c.pos + Len(SdpMidKey))
             IN  IF ~(m.ok /\ StartsWith(t, m.pos, SdpMLineIndexKey)) THEN DecodeErr
                 ELSE LET i == ParseOptU16(t, m.pos + Len(SdpMLineIndexKey))
                      IN  IF i.ok /\ EndsAt(t, i.pos, <<"}", "}", "}">>)
                          THEN DecodeOk([tag |-> "Ice",
                                         candidate |->
                                           [candidate |-> c.val,
                                            sdp_mid |-> m.val,
                                            sdp_m_line_index |-> i.val]])
                          ELSE DecodeErr

ParseErrorVariant(t) ==
    LET r == ParseString(t, Len(ErrorHead) + 1)
    IN  IF r.ok /\ EndsAt(t, r.pos, <<"}">>)
        THEN DecodeOk([tag |-> "Error", text |-> r.val])
        ELSE DecodeErr

\* serde_json::from_str::<SignalMessage>, line 221: a text naming no variant
\* of the enum is an error, as is any text that is not complete JSON
from_str(t) ==
    IF StartsWith(t, 1, OfferHead) THEN ParseSdpVariant(t, OfferHead, "Offer")
    ELSE IF StartsWith(t, 1, AnswerHead) THEN ParseSdpVariant(t, AnswerHead, "Answer")
    ELSE IF StartsWith(t, 1, IceHead) THEN ParseIceVariant(t)
    ELSE IF StartsWith(t, 1, ErrorHead) THEN ParseErrorVariant(t)
    ELSE DecodeErr

CodecIdle ==
    [phase |-> "idle", msg |-> <<>>, text |-> <<>>, out |-> DecodeErr]

\* encode the message drawn at the start
Encode ==
    /\ codec.phase = "input"
    /\ codec' = [codec EXCEPT !.phase = "encoded", !.text = to_string(codec.msg)]
    /\ UNCHANGED <<streamVars, audioVars, signalVars, videoVars>>

\* decode the text Encode wrote
Decode ==
    /\ codec.phase = "encoded"
    /\ codec' = [codec EXCEPT !.phase = "decoded", !.out = from_str(codec.text)]
    /\ UNCHANGED <<streamVars, audioVars, signalVars, videoVars>>

\* is_running, lines 284-288
is_running == STREAM_some /\ running

\* ------------------------------------------------ lib.rs, handle_signal
\* texts the host hands to handle_signal
HostTexts ==
    {to_string([tag |-> "Answer", sdp |-> <<"a">>]),
     to_string([tag |-> "Ice",
                candidate |-> [candidate |-> <<"a">>, sdp_mid |-> <<<<"a">>>>,
                               sdp_m_line_index |-> <<0>>]]),
     <<"{">>}

\* handle_signal, lines 233-248: the body of `if let Some(transport)` is
\* empty, so nothing is sent on ws_sender
handle_signal(text) ==
    /\ ~crashed
    /\ IF ~STREAM_some
       THEN /\ ret' = [op |-> "handle_signal", val |-> "error"]
            /\ UNCHANGED handed
       ELSE /\ ret' = [op |-> "handle_signal", val |-> "ok"]
            /\ IF running /\ transport # None
               THEN Len(handed) < MaxSignals /\ handed' = Append(handed, text)
               ELSE UNCHANGED handed
    /\ UNCHANGED <<STREAM_some, running, video_capture, audio_capture, transport,
                   stats, loops, released, gen, failed, events, last_fps, decoded, sent, crashed, stopped,
                   lateTick, danglingUse>>
    /\ UNCHANGED <<dispatcher, ws_queue, ws_open, conn_calls, dispatched,
                   apply_result, now, last_ping, last_signal>>
    /\ UNCHANGED <<audioVars, codecVars, videoVars>>

\* ------------------------------------------- webrtc/mod.rs, the transport
SignalInit ==
    /\ dispatcher = "none"
    /\ ws_queue = <<>>
    /\ ws_open = FALSE
    /\ conn_calls = <<>>
    /\ dispatched = <<>>
    /\ apply_result = "none"
    /\ handed = <<>>
    /\ now = 0
    /\ last_ping = 0
    /\ last_signal = <<>>

AnswerText == to_string([tag |-> "Answer", sdp |-> <<"a">>])
IceText ==
    to_string([tag |-> "Ice",
               candidate |-> [candidate |-> <<"a">>, sdp_mid |-> <<>>,
                              sdp_m_line_index |-> <<7>>]])
OfferText == to_string([tag |-> "Offer", sdp |-> <<"a">>])
ErrorText == to_string([tag |-> "Error", text |-> <<"a">>])
\* an Answer cut short, and an object whose key names no variant
TruncatedText == SubSeq(AnswerText, 1, Len(AnswerText) - 1)
UnknownTagText ==
    <<"{", "\"", "B", "y", "e", "\"", ":", "{", "\"", "s", "d", "p", "\"", ":",
      "\"", "a", "\"", "}", "}">>

\* tungstenite Message values put on the channel: text frames, and binary
\* frames whose bytes are or are not UTF-8
WsMessages ==
    [kind : {"Text"}, utf8 : {TRUE},
     payload : {AnswerText, IceText, OfferText, ErrorText, TruncatedText,
                UnknownTagText}]
        \cup [kind : {"Binary"}, utf8 : BOOLEAN, payload : {AnswerText}]

\* Message::into_text, line 220
into_text(m) ==
    IF m.kind = "Text" \/ m.utf8 THEN [ok |-> TRUE, text |-> m.payload]
    ELSE [ok |-> FALSE, text |-> <<>>]

\* lines 220-221: the message as a SignalMessage, if it is one
Decoded(m) ==
    LET txt == into_text(m) IN IF txt.ok THEN from_str(txt.text) ELSE DecodeErr

\* WebRTCTransport::new, lines 83-251; every `?` of it comes before the
\* task is spawned, so a failure leaves nothing behind
WebRTCTransport_new(ok) ==
    /\ dispatcher = "none"
    /\ IF ok
       THEN /\ dispatcher' = "running"
            /\ ws_open' = TRUE
            /\ last_ping' = now
       ELSE UNCHANGED <<dispatcher, ws_open, last_ping>>
    /\ UNCHANGED <<ws_queue, conn_calls, dispatched, apply_result, handed, now,
                   last_signal>>
    /\ UNCHANGED <<streamVars, audioVars, codecVars, videoVars>>

\* a send on ws_sender (UnboundedSender::send): the message is queued
\* while the receiving end exists and is refused once it is gone
ws_send(m) ==
    /\ ws_open
    /\ Len(dispatched) + Len(ws_queue) < MaxMessages
    /\ ws_queue' = IF dispatcher = "running" THEN Append(ws_queue, m) ELSE ws_queue
    /\ UNCHANGED <<dispatcher, ws_open, conn_calls, dispatched, apply_result,
                   handed, now, last_ping, last_signal>>
    /\ UNCHANGED <<streamVars, audioVars, codecVars, videoVars>>

\* One turn of the dispatcher's `while let`, lines 219-239.  sdp_ok: whether
\* RTCSessionDescription::answer(sdp) builds a description; call_ok: whether
\* the call on the peer connection succeeds.  decode_fatal is FALSE in the
\* code: a message that is no SignalMessage falls through both `if let`s.
DispatchWith(sdp_ok, call_ok, decode_fatal) ==
    LET m == Head(ws_queue)
        d == Decoded(m)
        n == Len(dispatched) + 1
        outcome ==
            IF ~d.ok THEN IF decode_fatal THEN "decode_error" ELSE "dropped"
            ELSE IF d.msg.tag = "Answer"
            THEN IF ~sdp_ok THEN "sdp_error"
                 ELSE IF call_ok THEN "applied" ELSE "call_error"
            ELSE IF d.msg.tag = "Ice"
            THEN IF call_ok THEN "applied" ELSE "call_error"
            ELSE "ignored"
        called == d.ok /\ (d.msg.tag = "Ice" \/ (d.msg.tag = "Answer" /\ sdp_ok))
        exits == outcome \in {"sdp_error", "decode_error"}
    IN  /\ dispatcher = "running"
        /\ ws_queue # <<>>
        /\ dispatched' = Append(dispatched, m)
        /\ apply_result' = outcome
        /\ conn_calls' =
             IF called
             THEN Append(conn_calls,
                         [fn |-> IF d.msg.tag = "Answer"
                                 THEN "set_remote_description"
                                 ELSE "add_ice_candidate",
                          ok |-> call_ok, n |-> n])
             ELSE conn_calls
        \* the `?` on line 225 returns from the task, dropping ws_receiver
        \* and what is still queued in it
        /\ dispatcher' = IF exits THEN "failed" ELSE "running"
        /\ ws_queue' = IF exits THEN <<>> ELSE Tail(ws_queue)
        /\ UNCHANGED <<ws_open, handed, now, last_ping, last_signal>>
        /\ UNCHANGED <<streamVars, audioVars, codecVars, videoVars>>

Dispatch_DecodeErrorFatal(sdp_ok, call_ok) == DispatchWith(sdp_ok, call_ok, TRUE)

Dispatch(sdp_ok, call_ok) == DispatchWith(sdp_ok, call_ok, FALSE)

\* line 219: recv() yields None once ws_sender is gone and the queue is
\* empty, and the task returns Ok(())
DispatcherFinish ==
    /\ dispatcher = "running"
    /\ ws_queue = <<>>
    /\ ~ws_open
    /\ dispatcher' = "finished"
    /\ UNCHANGED <<ws_queue, ws_open, conn_calls, dispatched, apply_result,
                   handed, now, last_ping, last_signal>>
    /\ UNCHANGED <<streamVars, audioVars, codecVars, videoVars>>

\* the transport is dropped (lines 272-279), and ws_sender with it
WebRTCTransport_drop ==
    /\ ws_open
    /\ ws_open' = FALSE
    /\ UNCHANGED <<dispatcher, ws_queue, conn_calls, dispatched, apply_result,
                   handed, now, last_ping, last_signal>>
    /\ UNCHANGED <<streamVars, audioVars, codecVars, videoVars>>

\* the runtime the task was spawned on shuts down: the task is dropped at
\* its recv().await
RuntimeShutdown ==
    /\ dispatcher = "running"
    /\ dispatcher' = "cancelled"
    /\ ws_queue' = <<>>
    /\ UNCHANGED <<ws_open, conn_calls, dispatched, apply_result, handed, now,
                   last_ping, last_signal>>
    /\ UNCHANGED <<streamVars, audioVars, codecVars, videoVars>>

\* a second of time passes
TimePasses ==
    /\ now < MaxTime
    /\ now' = now + 1
    /\ UNCHANGED <<dispatcher, ws_queue, ws_open, conn_calls, dispatched,
                   apply_result, handed, last_ping, last_signal>>
    /\ UNCHANGED <<streamVars, audioVars, codecVars, videoVars>>

\* The peer's liveness signal arrives.  last_ping is written on line 211
\* and nowhere else, so the arrival changes nothing the transport holds.
LivenessSignal ==
    /\ ws_open
    /\ last_signal' = <<now>>
    /\ UNCHANGED <<dispatcher, ws_queue, ws_open, conn_calls, dispatched,
                   apply_result, handed, now, last_ping>>
    /\ UNCHANGED <<streamVars, audioVars, codecVars, videoVars>>

\* is_connected, lines 267-269
is_connected == now - last_ping < LivenessWindow

\* ------------------------------------------------------- video/mod.rs
\* Option<T>: <<>> is None and <<v>> is Some(v)
OptPts == {<<>>, <<0>>, <<33>>}

\* VideoCapture::new, lines 84-94
VideoInit ==
    /\ last_frame = <<>>
    /\ last_pts = <<>>
    /\ frame_count = 0
    /\ received = 0
    /\ returned = <<>>
    /\ cap_last = [ret |-> "none", frame |-> <<>>,
                   before |-> [last_frame |-> <<>>, last_pts |-> <<>>,
                               frame_count |-> 0]]
    /\ nCaptures = 0

\* the k-th frame the decoder puts out, with its presentation timestamp
DecodedFrame(k, pts) == [id |-> k, format |-> "native", pts |-> pts]

\* scaler.run, line 112: the NV12 picture made from a decoded frame
Scaled(f) == [id |-> f.id, format |-> "NV12"]

\* How a capture_frame call ends, lines 98-126.  pkt: what packets().next()
\* yields ("none", "other" for a packet of another stream, "video");
\* send_ok: decoder.send_packet; out: <<>> when receive_frame has no frame,
\* <<pts>> when it has one; scale_ok: scaler.run.
CaptureOutcome(pkt, send_ok, out, scale_ok) ==
    IF pkt # "video" THEN "nil"
    ELSE IF ~send_ok THEN "err"
    ELSE IF out = <<>> THEN "nil"
    ELSE IF ~scale_ok THEN "err"
    ELSE "frame"

capture_frame_CountsPackets(pkt, send_ok, out, scale_ok) ==
    LET res == CaptureOutcome(pkt, send_ok, out, scale_ok)
        got == pkt = "video" /\ send_ok /\ out # <<>>
        f == DecodedFrame(received + 1, out[1])
    IN  /\ nCaptures < MaxCaptures
        /\ nCaptures' = nCaptures + 1
        /\ received' = IF got THEN received + 1 ELSE received
        /\ frame_count' = IF pkt = "video" /\ send_ok THEN frame_count + 1
                          ELSE frame_count
        /\ IF res = "frame"
           THEN /\ last_frame' = <<Scaled(f)>>
                /\ last_pts' = f.pts
                /\ returned' = <<f>>
           ELSE UNCHANGED <<last_frame, last_pts, returned>>
        /\ cap_last' = [ret |-> res,
                        frame |-> IF res = "frame" THEN <<f>> ELSE <<>>,
                        before |-> [last_frame |-> last_frame,
                                    last_pts |-> last_pts,
                                    frame_count |-> frame_count]]
        /\ UNCHANGED <<streamVars, audioVars, signalVars, codecVars>>

\* capture_frame, lines 97-127: the three fields are written only on the
\* path that returns Ok(Some(decoded)), after scaler.run has succeeded
capture_frame(pkt, send_ok, out, scale_ok) ==
    LET res == CaptureOutcome(pkt, send_ok, out, scale_ok)
        got == pkt = "video" /\ send_ok /\ out # <<>>
        f == DecodedFrame(received + 1, out[1])
    IN  /\ nCaptures < MaxCaptures
        /\ nCaptures' = nCaptures + 1
        /\ received' = IF got THEN received + 1 ELSE received
        /\ IF res = "frame"
           THEN /\ last_frame' = <<Scaled(f)>>
                /\ frame_count' = frame_count + 1
                /\ last_pts' = f.pts
                /\ returned' = <<f>>
           ELSE UNCHANGED <<last_frame, frame_count, last_pts, returned>>
        /\ cap_last' = [ret |-> res,
                        frame |-> IF res = "frame" THEN <<f>> ELSE <<>>,
                        before |-> [last_frame |-> last_frame,
                                    last_pts |-> last_pts,
                                    frame_count |-> frame_count]]
        /\ UNCHANGED <<streamVars, audioVars, signalVars, codecVars>>

\* ------------------------------------------------------ specifications
Init ==
    StreamInit /\ AudioInit /\ SignalInit /\ VideoInit /\ codec = CodecIdle

Next ==
    \/ \E fps \in FpsValues, fail \in FailSteps : start_stream(fps, fail)
    \/ stop_stream
    \/ \E l \in DOMAIN loops, rt_ok \in BOOLEAN : LoopSetup(l, rt_ok)
    \/ \E l \in DOMAIN loops : VideoTick(l)
    \/ \E l \in DOMAIN loops, res \in {"frame", "none", "err"},
          len \in FrameLens, dies \in BOOLEAN : CaptureFrame(l, res, len, dies)
    \/ \E l \in DOMAIN loops, send_ok \in BOOLEAN, dies \in BOOLEAN :
          SendVideoFrame(l, send_ok, dies)
    \/ \E l \in DOMAIN loops : UpdateStats(l)
    \/ \E l \in DOMAIN loops : StatsTick(l)

Spec == Init /\ [][Next]_vars

\* a step of the pacing thread l
LoopStep(l) ==
    /\ l \in DOMAIN loops
    /\ \/ \E rt_ok \in BOOLEAN : LoopSetup(l, rt_ok)
       \/ VideoTick(l)
       \/ \E res \in {"frame", "none", "err"}, len \in FrameLens,
             dies \in BOOLEAN : CaptureFrame(l, res, len, dies)
       \/ \E send_ok \in BOOLEAN, dies \in BOOLEAN :
             SendVideoFrame(l, send_ok, dies)
       \/ UpdateStats(l)
       \/ StatsTick(l)

\* The pacing threads are OS threads that nothing blocks, and their
\* intervals keep firing: a thread that can take a step takes one.  The
\* host is under no obligation to call anything.
FairSpec == Spec /\ \A l \in 1..MaxStarts : WF_vars(LoopStep(l))

AudioNext ==
    \/ \E res \in CaptureResults, frames \in AudioPackets :
          capture_audio(res, frames)
    \/ \E n \in 0..(RbCapacity + 1) : read_audio(n)

AudioSpec == Init /\ [][AudioNext]_vars

HostNext ==
    \/ \E fps \in FpsValues, fail \in FailSteps : start_stream(fps, fail)
    \/ stop_stream
    \/ \E text \in HostTexts : handle_signal(text)

HostSpec == Init /\ [][HostNext]_vars

SignalNext ==
    \/ \E ok \in BOOLEAN : WebRTCTransport_new(ok)
    \/ \E m \in WsMessages : ws_send(m)
    \/ \E sdp_ok \in BOOLEAN, call_ok \in BOOLEAN : Dispatch(sdp_ok, call_ok)
    \/ DispatcherFinish
    \/ WebRTCTransport_drop
    \/ RuntimeShutdown

SignalSpec == Init /\ [][SignalNext]_vars

LivenessNext ==
    \/ \E ok \in BOOLEAN : WebRTCTransport_new(ok)
    \/ TimePasses
    \/ LivenessSignal
    \/ WebRTCTransport_drop

LivenessSpec == Init /\ [][LivenessNext]_vars

CodecInit ==
    /\ StreamInit /\ AudioInit /\ SignalInit /\ VideoInit
    /\ \E m \in SignalMessages :
         codec = [phase |-> "input", msg |-> m, text |-> <<>>, out |-> DecodeErr]

CodecNext == Encode \/ Decode

VideoNext ==
    \E pkt \in {"none", "other", "video"}, send_ok \in BOOLEAN, out \in OptPts,
       scale_ok \in BOOLEAN : capture_frame(pkt, send_ok, out, scale_ok)

VideoSpec == Init /\ [][VideoNext]_vars

CodecSpec == CodecInit /\ [][CodecNext]_vars

\* --------------------------------------------------------------- claims
IsPrefix(s, t) == Len(s) <= Len(t) /\ SubSeq(t, 1, Len(s)) = s
\* the kinds of event the pacing loop has handed to the event sink: line
\* 165 is its only call on on_event_ts
EmittedKinds == IF events > 0 THEN {"Stats"} ELSE {}
StartCall == \E fps \in FpsValues, fail \in FailSteps : start_stream(fps, fail)
LiveLoops == {l \in DOMAIN loops : Alive(l)}

\* C1: a start_stream call made while the stream is running returns false
\* and leaves the video adapter, the audio adapter, the transport, the
\* running flag and the set of pacing loops exactly as they were.
C1_StartWhileRunningIsNoop ==
    [][(running /\ StartCall) =>
         /\ ret' = [op |-> "start_stream", val |-> "false"]
         /\ UNCHANGED <<running, video_capture, audio_capture, transport,
                        loops, released, gen, failed>>]_vars

\* a second start_stream has returned false on a stream whose first start
\* succeeded and spawned its loop
C1_Witness ==
    /\ running
    /\ Len(loops) = 1
    /\ ret = [op |-> "start_stream", val |-> "false"]

\* C2: stop_stream called while the stream is not running (never started,
\* start failed, or already stopped) returns false, not an error, and
\* changes no state.
C2_StopWhenNotRunningReturnsFalse ==
    [][(~running /\ stop_stream) =>
         /\ ret' = [op |-> "stop_stream", val |-> "false"]
         /\ UNCHANGED <<STREAM_some, running, video_capture, audio_capture,
                        transport, stats, loops, released>>]_vars

\* C3: when start_stream returns an error, every resource opened earlier in
\* that call has been released (video_capture, audio_capture and transport
\* are all absent) and the stream is not running.
C3_FailedStartReleasesEverything ==
    ret = [op |-> "start_stream", val |-> "error"] =>
        /\ video_capture = None
        /\ audio_capture = None
        /\ transport = None
        /\ ~running

\* C4: once stop_stream has stopped a stream, its pacing loop finishes at
\* most the tick in progress: it begins no further video tick and emits no
\* further Stats event.
C4_NoTickAfterStop == lateTick = {}

\* C5: at most one pacing-loop thread is alive at any time.
C5_AtMostOneLoopAlive == Cardinality(LiveLoops) <= 1

\* C6: no video tick calls capture_frame on a video adapter, or sends
\* through a transport, that stop_stream has released.
C6_NoUseOfReleasedResource == ~danglingUse

\* C7: the ring buffer never holds more than its capacity, and
\* read_audio(buffer) returns min(len(buffer), samples available before the
\* call), having removed exactly that many samples.  (The call waits for
\* nothing but the buffer's own lock.)
C7_BoundedAndReadReturnsMin ==
    /\ Len(ring_buffer) <= RbCapacity
    /\ last.op = "read_audio" =>
         /\ last.ret = Min(last.req, Len(last.before))
         /\ Len(last.samples) = last.ret
         /\ Len(ring_buffer) = Len(last.before) - last.ret

\* a read that asked for more than a full buffer held came back short
C7_Witness ==
    /\ last.op = "read_audio"
    /\ Len(last.before) = RbCapacity
    /\ last.req > RbCapacity
    /\ last.ret = RbCapacity

\* the case of C8: capacity + k samples written to the empty buffer, then
\* one read of `capacity` samples
C8_Case ==
    /\ nReads = 1
    /\ last.op = "read_audio"
    /\ last.req = RbCapacity
    /\ Len(pushed) >= RbCapacity

\* C8 as stated: writing capacity + k samples and then reading capacity
\* samples yields the last `capacity` samples written.
C8_ReadYieldsLastCapacity ==
    C8_Case =>
        last.samples = SubSeq(pushed, Len(pushed) - RbCapacity + 1, Len(pushed))

\* C8 as amended: writing capacity + k samples and then reading capacity
\* samples yields the first `capacity` samples written, the newest k being
\* lost.
C8_ReadYieldsFirstCapacity ==
    C8_Case => last.samples = SubSeq(pushed, 1, RbCapacity)

\* the read happened after more samples were written than the buffer holds
C8_Witness == C8_Case /\ Len(pushed) > RbCapacity

\* C9: samples pushed by capture_audio while the ring buffer is full are
\* discarded: the buffer keeps what it held, takes the samples of the call
\* only while there is room (the newest are the ones dropped), and never
\* grows beyond its capacity.
C9_PushWhenFullIsDiscarded ==
    last.op = "capture_audio" =>
        LET room == RbCapacity - Len(last.before)
        IN  /\ ring_buffer =
                 last.before \o SubSeq(last.samples, 1, Min(room, Len(last.samples)))
            /\ Len(ring_buffer) <= RbCapacity
            /\ (room = 0 => ring_buffer = last.before)

\* capture_audio pushed samples into a buffer that was already full
C9_Witness ==
    /\ last.op = "capture_audio"
    /\ Len(last.before) = RbCapacity
    /\ last.samples # <<>>

\* C10: the samples returned by successive read_audio calls, concatenated,
\* are a prefix of the samples the buffer accepted, in the order accepted.
C10_ReadsArePrefixOfAccepted == IsPrefix(readOut, accepted)

\* two reads with pushes around them, some samples dropped, some still held
C10_Witness ==
    /\ nReads >= 2
    /\ Len(readOut) >= 2
    /\ Len(accepted) > Len(readOut)
    /\ Len(pushed) > Len(accepted)

\* C11: while the stream is running, every text handed to handle_signal is
\* delivered to the transport's inbound queue, from which the dispatcher
\* takes it: it is queued or has been dispatched.
C11_HandedTextIsDelivered ==
    \A i \in 1..Len(handed) :
        \/ \E j \in 1..Len(ws_queue) : ws_queue[j].payload = handed[i]
        \/ \E j \in 1..Len(dispatched) : dispatched[j].payload = handed[i]

\* C12: a failure while applying an Answer (its sdp builds no session
\* description, or the call fails) or an Ice candidate leaves the dispatcher
\* running with the later messages still queued for it.
C12_ApplyFailureIsNonFatal ==
    [][(dispatched' # dispatched /\ apply_result' \in {"sdp_error", "call_error"})
         => (dispatcher' = "running" /\ ws_queue' = Tail(ws_queue))]_vars

\* C13: a message that decodes to no SignalMessage is dropped: no call is
\* made on the connection, and the dispatcher stays running with the later
\* messages still queued for it.
C13_UndecodableIsDropped ==
    [][(dispatched' # dispatched /\ ~Decoded(Head(ws_queue)).ok)
         => /\ conn_calls' = conn_calls
            /\ apply_result' = "dropped"
            /\ dispatcher' = "running"
            /\ ws_queue' = Tail(ws_queue)]_vars

\* a binary frame that is no text and a text with an unknown tag were
\* dropped, and the Ice candidate sent after them was applied
C13_Witness ==
    /\ Len(dispatched) = 3
    /\ dispatched[1].kind = "Binary" /\ ~dispatched[1].utf8
    /\ dispatched[2].payload = UnknownTagText
    /\ dispatched[3].payload = IceText
    /\ conn_calls = <<[fn |-> "add_ice_candidate", ok |-> TRUE, n |-> 3]>>
    /\ dispatcher = "running"

\* C14: decoding the JSON text a SignalMessage encodes to yields the
\* message, for every variant.
C14_RoundTrip == codec.phase = "decoded" => codec.out = DecodeOk(codec.msg)

\* an Ice candidate without sdp_mid, with the largest line index and with
\* characters that need escaping, has gone through both conversions
C14_Witness ==
    /\ codec.phase = "decoded"
    /\ codec.msg.tag = "Ice"
    /\ codec.msg.candidate.sdp_mid = <<>>
    /\ codec.msg.candidate.sdp_m_line_index = <<65535>>
    /\ codec.msg.candidate.candidate = <<"\\", "\"">>
    /\ codec.out.ok

\* C15: is_connected() is true exactly when a liveness signal of the peer
\* was observed within the last 5 seconds; it is false while none has
\* been observed.
C15_ConnectedIffRecentSignal ==
    ws_open =>
        (is_connected <=>
            (last_signal # <<>> /\ now - last_signal[1] < LivenessWindow))

\* C16: while the stream is running with its audio adapter open and a
\* pacing thread alive, audio is eventually transmitted, unless the stream
\* stops or its threads die first.
C16_AudioEventuallySent ==
    (running /\ audio_capture # None /\ LiveLoops # {})
        ~> (stats.audio_frames_sent > 0 \/ ~running \/ crashed
               \/ LiveLoops = {})

\* C17: while the send started by a video tick is pending, the loop still
\* takes its next stats tick and its next video tick.
C17_PendingSendDoesNotGateTicks ==
    \A l \in DOMAIN loops :
        (loops[l].pc = "send" /\ ~crashed /\ events < MaxEvents)
        => (ENABLED StatsTick(l) /\ ENABLED VideoTick(l))

\* C18: the fps of a Stats event is computed from the frames sent since
\* the previous stats tick, not from the cumulative count.
C18_FpsFromDelta == last_fps.frames = last_fps.since_tick

\* C19: start_stream with fps = 0 returns an error and opens nothing: the
\* adapters, the transport, the running flag and the set of pacing loops
\* are as before the call.
C19_InvalidParamsRejected ==
    [][\A fail \in FailSteps :
         (~running /\ start_stream(0, fail)) =>
             /\ ret'.val = "error"
             /\ UNCHANGED <<running, video_capture, audio_capture, transport,
                            loops>>]_vars

\* C20: once a capture or a send has failed on some tick, a Warning or an
\* Error event has been handed to the event sink.
C20_FailureIsReported ==
    failed => EmittedKinds \cap {"Warning", "Error"} # {}

\* C22: handle_signal called with a well-formed Ice message while the
\* stream is not running (before the first start_stream, after stop_stream)
\* returns success and leaves the stream state as it was.
C22_IceWhileNotRunningAccepted ==
    [][\A text \in HostTexts :
         (~running /\ from_str(text).ok /\ from_str(text).msg.tag = "Ice"
             /\ handle_signal(text))
         => /\ ret'.val = "ok"
            /\ UNCHANGED <<STREAM_some, running, video_capture, audio_capture,
                           transport, stats, loops>>]_vars

\* C25: the running flag and the owned resources agree: running is true
\* exactly when the video adapter, the audio adapter and the transport are
\* all present, and is_running() returns the flag.
C25_RunningIffAllResources ==
    /\ running <=>
         (video_capture # None /\ audio_capture # None /\ transport # None)
    /\ is_running = running

\* a start that failed after opening the video adapter has left it in
\* place, with the stream not running
C25_Witness ==
    /\ ret = [op |-> "start_stream", val |-> "error"]
    /\ video_capture # None
    /\ transport = None
    /\ ~is_running

\* C23: the dispatcher takes the messages in the order queued and has the
\* per-variant effects: a decoded Answer causes exactly one
\* set_remote_description call, a decoded Ice exactly one add_ice_candidate
\* call, a decoded Offer or Error no call and no change of the dispatcher.
C23_PerVariantEffects ==
    [][dispatched' # dispatched =>
         LET d == Decoded(Head(ws_queue))
             n == Len(dispatched) + 1
             OneCall(fn) ==
                 /\ Len(conn_calls') = Len(conn_calls) + 1
                 /\ SubSeq(conn_calls', 1, Len(conn_calls)) = conn_calls
                 /\ conn_calls'[Len(conn_calls')].fn = fn
                 /\ conn_calls'[Len(conn_calls')].n = n
         IN  /\ dispatched' = Append(dispatched, Head(ws_queue))
             /\ (d.ok /\ d.msg.tag = "Answer") => OneCall("set_remote_description")
             /\ (d.ok /\ d.msg.tag = "Ice") => OneCall("add_ice_candidate")
             /\ (d.ok /\ d.msg.tag \in {"Offer", "Error"}) =>
                    (conn_calls' = conn_calls /\ dispatcher' = dispatcher)]_vars

\* C21: video frames are handed to the transport in decode order: a frame
\* decoded before another is passed to send_video_frame before it.
C21_SentInDecodeOrder ==
    \A i, j \in 1..Len(sent) : i < j => sent[i] < sent[j]

\* C24: frame_count grows by exactly one on each capture_frame call that
\* returns a frame; the retained frame is the scaled copy of the frame
\* returned last; a call that returns no frame leaves frame_count, the
\* retained frame and the last timestamp as they were.
C24_CountAndRetainedFrame ==
    /\ cap_last.ret = "frame" =>
         /\ frame_count = cap_last.before.frame_count + 1
         /\ last_frame = <<Scaled(cap_last.frame[1])>>
    /\ cap_last.ret = "nil" =>
         /\ frame_count = cap_last.before.frame_count
         /\ last_frame = cap_last.before.last_frame
         /\ last_pts = cap_last.before.last_pts
    /\ last_frame = IF returned = <<>> THEN <<>> ELSE <<Scaled(returned[1])>>

\* two frames were returned, the retained one is the second, and the call
\* after them found the decoder without output
C24_Witness ==
    /\ frame_count = 2
    /\ cap_last.ret = "nil"
    /\ received = 2
    /\ last_frame = <<Scaled(DecodedFrame(2, <<33>>))>>
    /\ nCaptures >= 3

====
